---- MODULE Spec2Model ----
(***************************************************************************)
(* Model of the download orchestration of app/pages/downloads_page.py:     *)
(* the DownloadsPage (UI thread), the cards (DownloadItemWidget), the      *)
(* _DownloadWorker threads, the external yt-dlp processes they drive and   *)
(* the shared output directory.                                            *)
(***************************************************************************)
EXTENDS Integers, Sequences, FiniteSets, TLC

(***************************************************************************)
(* Bounds of the model.                                                    *)
(***************************************************************************)
\* lines one external process prints in one run
MaxLines == 3
\* lines the stdout pipe holds between the process and the reading loop
PipeCap == 1
\* lines one process prints where two downloads run side by side
MaxPairLines == 1

\* the download cards (one worker each) and the source URLs of the model
Cards == {1, 2}
URLs == {"u1", "u2"}

Min(a, b) == IF a < b THEN a ELSE b
Max(a, b) == IF a > b THEN a ELSE b

(***************************************************************************)
(* The output directory: a sequence of entries in creation-time order.     *)
(* An entry is named by the URL whose download writes it and by its kind;  *)
(* size 0 is below 1024 bytes, 1 is at least 1024 bytes but below 10% of   *)
(* the size yt-dlp announced, 2 is a full-size file.                       *)
(***************************************************************************)
NoPath == [u |-> "none", kind |-> "none"]
MediaName(u) == [u |-> u, kind |-> "media"]
PartName(u) == [u |-> u, kind |-> "part"]
YtdlName(u) == [u |-> u, kind |-> "ytdl"]
File(n, sz) == [name |-> n, size |-> sz]
\* a sub-directory and an unrelated media file already in the download folder
OldDir == File([u |-> "old", kind |-> "dir"], 2)
OldFile == File([u |-> "old", kind |-> "media"], 2)

Exists(dir, n) == \E i \in 1..Len(dir) : dir[i].name = n
IsFile(f) == f.name.kind # "dir"
SizeOf(dir, n) == (CHOOSE f \in {dir[i] : i \in 1..Len(dir)} : f.name = n).size
Remove(dir, n) == SelectSeq(dir, LAMBDA f : f.name # n)
Create(dir, n, sz) == IF Exists(dir, n) THEN dir ELSE Append(dir, File(n, sz))
IsPartial(f) == f.name.kind \in {"part", "ytdl"}
Partials(dir) == {dir[i] : i \in {j \in 1..Len(dir) : IsPartial(dir[j])}}

(***************************************************************************)
(* DownloadsPage._generate_unique_filename. The file "<title> (n).<ext>"   *)
(* of the video of URL u is CopyName(u, n); a title is the base title with *)
(* a counter suffix (n > 0), with a timestamp suffix (stamp) or bare.      *)
(***************************************************************************)
\* the last counter the loop tries
MaxCounter == 999
CopyName(u, n) == [u |-> u, kind |-> "copy", n |-> n]
Title(n, stamp) == [n |-> n, stamp |-> stamp]
BaseTitle == Title(0, FALSE)
NoTitle == Title(-1, FALSE)
RECURSIVE LoopUntilEarly(_, _, _, _)
\* the iterations with the fallback taken one counter early
LoopUntilEarly(dir, u, counter, stop) ==
    IF counter = stop
    THEN NoTitle
    ELSE IF ~Exists(dir, CopyName(u, counter))
         THEN Title(counter, FALSE)
         ELSE IF counter + 1 >= MaxCounter
              THEN Title(0, TRUE)
              ELSE LoopUntilEarly(dir, u, counter + 1, stop)
RECURSIVE LoopUntil(_, _, _, _)
\* the iterations of the while loop that start with the counter at the given
\* value and below stop: the name one of them returns, NoTitle when the loop
\* goes on after them
LoopUntil(dir, u, counter, stop) ==
    IF counter = stop
    THEN NoTitle
    ELSE IF ~Exists(dir, CopyName(u, counter))
         THEN Title(counter, FALSE)
         ELSE IF counter + 1 > MaxCounter
              THEN Title(0, TRUE)
              ELSE LoopUntil(dir, u, counter + 1, stop)
RECURSIVE GenerateFrom(_, _, _)
\* the while loop, entered with the counter at the given value; it is
\* evaluated 32 iterations at a time to keep the evaluation shallow
GenerateFrom(dir, u, counter) ==
    LET r == LoopUntil(dir, u, counter, counter + 32)
    IN IF r = NoTitle THEN GenerateFrom(dir, u, counter + 32) ELSE r
GenerateUniqueFilename(dir, u) == GenerateFrom(dir, u, 1)

(***************************************************************************)
(* One output line of yt-dlp, as the substring tests of run() see it.      *)
(***************************************************************************)
NoLine ==
    [err |-> FALSE,       \* "ERROR:" in line or "Error:" in line
     fatal |-> "none",    \* the first fatal phrase of the raise chain in the line
     fmtna |-> FALSE,     \* "format not available" in line
     already |-> FALSE,   \* "has already been downloaded" in line
     warnreq |-> FALSE,   \* "WARNING:" in line and "requested format" in line
     exists |-> FALSE,    \* "already exists" in line
     dest |-> FALSE,      \* line.startswith("[download] Destination:")
     destin |-> FALSE,    \* "Destination:" in line
     dl |-> FALSE,        \* line.startswith("[download]") and "%" in line
     pct |-> -2,          \* percent token in tenths; -1 malformed; -2 no token
     size |-> "none",     \* token after ' of ': none, ok, bad (no match), missing
     speedbad |-> FALSE,  \* ' at ' with no token after it
     hundred |-> FALSE,   \* line.startswith("[download] 100%")
     conv |-> FALSE,      \* "Extracting audio" in line or "Merging formats" in line
     ind |-> FALSE,       \* some conversion indicator is a substring of the line
     post |-> FALSE]      \* "Post-process file" or "Finished downloading" in line

\* "[download] Destination: <path>"  ("Destination:" and "at" are indicators)
LDest == [NoLine EXCEPT !.dest = TRUE, !.destin = TRUE, !.ind = TRUE]
\* "[download]  p% of 50.00MiB at 2.31MiB/s ETA 00:40"  ("ETA", "at")
LPct(p) == [NoLine EXCEPT !.dl = TRUE, !.pct = p, !.size = "ok", !.ind = TRUE]
\* "[download] 100% of 50.00MiB in 00:21"
LHundred == [NoLine EXCEPT !.dl = TRUE, !.pct = 1000, !.size = "ok", !.hundred = TRUE]
\* "[Merger] Merging formats into "x.mp4""
LMerge == [NoLine EXCEPT !.conv = TRUE, !.ind = TRUE]
\* "[ExtractAudio] Destination: x.mp3"
LExtractDest == [NoLine EXCEPT !.destin = TRUE, !.ind = TRUE]
\* "ERROR: unable to download video"
LError == [NoLine EXCEPT !.err = TRUE]
\* "ERROR: [youtube] xyz: Video unavailable"
LUnavailable == [NoLine EXCEPT !.err = TRUE, !.fatal = "video_unavailable", !.ind = TRUE]
\* "ERROR: [youtube] xyz: Private video"  ("at" in "Private")
LPrivate == [NoLine EXCEPT !.err = TRUE, !.fatal = "private", !.ind = TRUE]
\* "ERROR: Unsupported URL: ..."
LUnsupported == [NoLine EXCEPT !.err = TRUE, !.fatal = "unsupported"]
\* "ERROR: No video formats found"  ("at" in "formats")
LNoFormats == [NoLine EXCEPT !.err = TRUE, !.fatal = "no_formats", !.ind = TRUE]
\* "WARNING: requested format not available" (first test of the raise chain)
LRequestedFormat ==
    [NoLine EXCEPT !.fatal = "no_formats", !.fmtna = TRUE, !.warnreq = TRUE, !.ind = TRUE]
\* "[info] format not available, trying the next one"
LFormatNA == [NoLine EXCEPT !.fmtna = TRUE, !.ind = TRUE]
\* "[download] x.mp4 has already been downloaded"
LAlready == [NoLine EXCEPT !.already = TRUE]
\* "File x.mp4 already exists, skipping"
LExists == [NoLine EXCEPT !.exists = TRUE]
\* "[download] Finished downloading playlist"
LPost == [NoLine EXCEPT !.post = TRUE]
\* "[download]  n/a% of 50.00MiB at 2.31MiB/s ETA 00:40"
LBadPct == [NoLine EXCEPT !.dl = TRUE, !.pct = -1, !.size = "ok", !.ind = TRUE]
\* "[youtube] xyz: Downloading webpage"
LInfo == NoLine
\* "[download]  50.0% of ~ 50.00MiB at 2.31MiB/s ETA 00:40"  (size token "~")
LBadSize == [NoLine EXCEPT !.dl = TRUE, !.pct = 500, !.size = "bad", !.ind = TRUE]

(***************************************************************************)
(* The signals a worker emits.                                             *)
(***************************************************************************)
Prog(v) == <<"progress", v>>
SizeEv == <<"size">>
StatsEv == <<"stats">>
Finished(p) == <<"finished", p>>
ErrorEv(m) == <<"error", m>>

\* _DownloadWorker._get_last_progress
GetLastProgress == 80
\* the cap of the postprocessing crawl
CrawlCap == 94

(***************************************************************************)
(* _DownloadWorker.__init__ and the locals run() sets up before its loop.  *)
(***************************************************************************)
NewWorker ==
    [cancelled |-> FALSE,
     process |-> FALSE,               \* self._process is set
     download_started |-> FALSE,
     real_progress_detected |-> FALSE,
     last_progress_value |-> 0,
     download_size_bytes |-> 0,
     last_path |-> NoPath,
     download_completed |-> FALSE,
     conversion_started |-> FALSE,
     error_detected |-> FALSE,
     error_message |-> "",
     total_size_text |-> "",
     total_size_bytes |-> 0,          \* 0 is None
     last_pct_val |-> -1]             \* -1 is None

\* the rescaling of a raw integer percent into the 5..75 band
MissingClamp(pct_int) == (pct_int * 3) \div 4
AdjustedPct(pct_int) == Max(5, Min(75, (pct_int * 3) \div 4))

\* the try block with a malformed percent token read as 0
PercentBlockZero(w, l) ==
    IF ~l.dl THEN [w |-> w, emits |-> <<>>]
    ELSE [w |-> [w EXCEPT !.last_pct_val = 0],
          emits |-> <<Prog(AdjustedPct(0))>>]
\* the try block of the "[download] ...%" branch of the loop
PercentBlock(w, l) ==
    IF ~l.dl \/ l.pct = -1 THEN [w |-> w, emits |-> <<>>]
    ELSE
      LET hasPct == l.pct >= 0
          pct_int == l.pct \div 10
          w1 == IF hasPct
                THEN [w EXCEPT !.last_pct_val = l.pct,
                               !.real_progress_detected =
                                   @ \/ pct_int > w.last_progress_value,
                               !.last_progress_value = Max(@, pct_int)]
                ELSE w
          e1 == IF hasPct THEN <<Prog(AdjustedPct(pct_int))>> ELSE <<>>
          newText == l.size = "ok" /\ w1.total_size_text # "S"
          w2 == CASE l.size = "ok" ->
                       [w1 EXCEPT !.total_size_text = "S",
                                  !.total_size_bytes = 1,
                                  !.download_size_bytes = 1]
                  [] l.size = "bad" -> [w1 EXCEPT !.total_size_bytes = 0]
                  [] OTHER -> w1
          e2 == IF newText /\ ~w1.download_completed THEN <<SizeEv>> ELSE <<>>
          aborted == l.size = "missing" \/ l.speedbad
          e3 == IF ~aborted /\ w2.total_size_text # "" /\ w2.last_pct_val # -1
                   /\ w2.total_size_bytes # 0
                THEN <<StatsEv>> ELSE <<>>
      IN [w |-> w2, emits |-> e1 \o e2 \o e3]

\* the chain of tests that raise: with no raise for a private video
RaiseChainNoPrivate(l) == IF l.fatal = "private" THEN "none" ELSE l.fatal
\* the chain of tests that raise: the message raised for the line ("none":
\* no test of the chain matches)
RaiseChain(l) == l.fatal

\* one iteration of "for line in proc.stdout" past the cancellation test;
\* tick: more than a second has passed since last_progress_time
ProcessLine(w, l, tick, path) ==
    LET masked == l.fmtna \/ (l.already /\ ~w.download_completed) \/ l.warnreq
        dup == l.exists /\ ~masked
        w1 == [w EXCEPT !.error_detected = @ \/ l.err \/ dup,
                        !.error_message =
                            IF dup THEN "dup" ELSE IF l.err THEN "line" ELSE @]
        eTick == IF tick /\ w.download_completed /\ w.conversion_started
                 THEN <<Prog(Min(CrawlCap, GetLastProgress + 1))>> ELSE <<>>
        w2 == IF l.dest
              THEN [w1 EXCEPT !.last_path = path, !.download_started = TRUE]
              ELSE w1
        eDest == IF l.dest THEN <<Prog(5)>> ELSE <<>>
        pb == PercentBlock(w2, l)
        w3 == pb.w
        done == l.hundred \/ (l.destin /\ w3.download_completed)
        w4 == IF done THEN [w3 EXCEPT !.download_completed = TRUE] ELSE w3
        e75 == IF done THEN <<Prog(75)>> ELSE <<>>
        w5 == IF l.conv
              THEN [w4 EXCEPT !.download_completed = TRUE,
                              !.conversion_started = TRUE]
              ELSE w4
        e80 == IF l.conv THEN <<Prog(80)>> ELSE <<>>
        crawl == l.ind /\ w5.download_completed
        w6 == IF crawl THEN [w5 EXCEPT !.conversion_started = TRUE] ELSE w5
        e81 == IF crawl THEN <<Prog(Min(CrawlCap, GetLastProgress + 1))>> ELSE <<>>
        e95 == IF w6.download_completed /\ (l.already \/ l.post)
               THEN <<Prog(95)>> ELSE <<>>
    IN IF RaiseChain(l) # "none"
       THEN [w |-> w1, emits |-> <<>>, raised |-> RaiseChain(l)]
       ELSE [w |-> w6,
             emits |-> eTick \o eDest \o pb.emits \o e75 \o e80 \o e81 \o e95,
             raised |-> "none"]


(***************************************************************************)
(* Quality presets (DownloadsPage._preset_formats) and the card's format   *)
(* label. A mode is the preset id: family and number ("video_1080" is      *)
(* kind "video", n 1080). The third part of a format label is "1080p"      *)
(* (form "p"), "4K" (form "K"), "320 kbps" (form "kbps") or "Ajustado a    *)
(* maxima calidad (720p)" (form "adj").                                    *)
(***************************************************************************)
Mode(k, n) == [kind |-> k, n |-> n]
Fmt(v, form, n) == [video |-> v, form |-> form, n |-> n]
Preset(label, mode, fmt) == [label |-> label, mode |-> mode, fmt |-> fmt]
P2160 == Preset("Video | MP4 | 4K", Mode("video", 2160), Fmt(TRUE, "K", 4))
P1440 == Preset("Video | MP4 | 2K", Mode("video", 1440), Fmt(TRUE, "K", 2))
P1080 == Preset("Video | MP4 | 1080p", Mode("video", 1080), Fmt(TRUE, "p", 1080))
P720 == Preset("Video | MP4 | 720p", Mode("video", 720), Fmt(TRUE, "p", 720))
P480 == Preset("Video | MP4 | 480p", Mode("video", 480), Fmt(TRUE, "p", 480))
PMp3 == Preset("Audio | MP3 | 320 kbps", Mode("mp3", 320), Fmt(FALSE, "kbps", 320))
\* the other audio presets; n 0 is the "_best" id of a family
PAudio(family, label, n, kbps) ==
    Preset(label, Mode(family, n), Fmt(FALSE, "kbps", kbps))
AudioPresets ==
    {PMp3} \cup
    {PAudio("mp3", "Audio | MP3 | kbps", n, n) : n \in {256, 192, 128, 96, 64}} \cup
    {PAudio(f, "Audio | 320 kbps", 320, 320) : f \in {"m4a", "ogg", "wma"}} \cup
    {PAudio(f, "Audio | 192 kbps", 0, 192) : f \in {"m4a", "ogg", "wma"}}
VideoPresets == {P2160, P1440, P1080, P720, P480}

NoMode == Mode("none", 0)
NoFmt == Fmt(FALSE, "none", 0)
\* the default of _start_download for a label the map does not hold, and an
\* id run() does not know
PVideoBest == Preset("", Mode("video", 0), NoFmt)
PUnknown == Preset("", Mode("other", 0), NoFmt)

(***************************************************************************)
(* The command line run() builds. A format selector is the sequence of its *)
(* "/"-separated alternatives: the selector text without its filters, the  *)
(* height cap of its [height<=n] filters (0: none) and the container of    *)
(* its video [ext=...] filter ("": none).                                  *)
(***************************************************************************)
Alt(sel, cap, ext) == [sel |-> sel, cap |-> cap, ext |-> ext]
\* the chain with the tiers lacking the alternatives without a height cap
FormatSelectorCappedOnly(mode) ==
    IF mode.kind = "video" /\ mode.n = 0
    THEN <<Alt("bv*+ba", 0, "mp4"), Alt("bv*+ba", 0, ""), Alt("b", 0, "mp4"),
           Alt("b", 0, "")>>
    ELSE IF mode.kind = "video"
    THEN <<Alt("bestvideo+bestaudio", mode.n, "mp4"),
           Alt("bestvideo+bestaudio", mode.n, ""),
           Alt("best", mode.n, "mp4"), Alt("best", mode.n, "")>>
    ELSE IF mode.kind \in {"mp3", "ogg", "wma"}
    THEN <<Alt("bestaudio", 0, ""), Alt("best", 0, "")>>
    ELSE <<Alt("b", 0, "mp4"), Alt("b", 0, "")>>
\* the chain "fmt" of run() for self._mode
FormatSelector(mode) ==
    IF mode.kind = "video" /\ mode.n = 0
    THEN <<Alt("bv*+ba", 0, "mp4"), Alt("bv*+ba", 0, ""), Alt("b", 0, "mp4"),
           Alt("b", 0, "")>>
    ELSE IF mode.kind = "video"
    THEN <<Alt("bestvideo+bestaudio", mode.n, "mp4"),
           Alt("bestvideo+bestaudio", mode.n, ""),
           Alt("best", mode.n, "mp4"), Alt("best", mode.n, ""),
           Alt("best", 0, "mp4"), Alt("best", 0, "")>>
    ELSE IF mode.kind = "mp3"
    THEN <<Alt("bestaudio", 0, ""), Alt("best", 0, "")>>
    ELSE IF mode.kind = "m4a" /\ mode.n = 0
    THEN <<Alt("bestaudio", 0, "m4a"), Alt("bestaudio", 0, ""),
           Alt("best", 0, "")>>
    ELSE IF mode.kind \in {"ogg", "wma"} /\ mode.n = 0
    THEN <<Alt("bestaudio", 0, ""), Alt("best", 0, "")>>
    ELSE <<Alt("b", 0, "mp4"), Alt("b", 0, "")>>

\* the arguments run() adds for the mode: the options the properties speak
\* of ("": the option is absent; audio_quality in kbit/s, 0: absent)
NoArgs == [extract_audio |-> FALSE, audio_format |-> "", audio_quality |-> 0,
           codec |-> "", merge_output_format |-> "", no_playlist |-> FALSE]
AudioArgs(format, quality, codec) ==
    [NoArgs EXCEPT !.extract_audio = TRUE, !.audio_format = format,
                   !.audio_quality = quality, !.codec = codec]
\* "192k" of the "_best" ids
BestQuality == 192
\* the arguments with the "_320" ids of OGG, WMA and M4A unhandled
ModeArgsBestOnly(mode) ==
    CASE mode.kind = "mp3" -> AudioArgs("mp3", mode.n, "libmp3lame")
      [] mode.kind = "ogg" /\ mode.n = 0 ->
            AudioArgs("vorbis", BestQuality, "libvorbis")
      [] mode.kind = "wma" /\ mode.n = 0 ->
            AudioArgs("wma", BestQuality, "wmav2")
      [] mode.kind = "m4a" /\ mode.n = 0 ->
            AudioArgs("m4a", BestQuality, "aac")
      [] mode.kind = "video" -> [NoArgs EXCEPT !.merge_output_format = "mp4"]
      [] OTHER -> NoArgs
ModeArgs(mode) ==
    CASE mode.kind = "mp3" -> AudioArgs("mp3", mode.n, "libmp3lame")
      [] mode.kind = "ogg" /\ mode.n \in {0, 320} ->
            AudioArgs("vorbis", IF mode.n = 0 THEN BestQuality ELSE mode.n,
                      "libvorbis")
      [] mode.kind = "wma" /\ mode.n \in {0, 320} ->
            AudioArgs("wma", IF mode.n = 0 THEN BestQuality ELSE mode.n, "wmav2")
      [] mode.kind = "m4a" /\ mode.n \in {0, 320} ->
            AudioArgs("m4a", IF mode.n = 0 THEN BestQuality ELSE mode.n, "aac")
      [] mode.kind = "video" -> [NoArgs EXCEPT !.merge_output_format = "mp4"]
      [] OTHER -> NoArgs
BuildArgs(mode, no_playlist) ==
    [ModeArgs(mode) EXCEPT !.no_playlist = no_playlist]

\* DownloadsPage._extract_resolution_from_mode (0 is None)
ExtractResolutionFromMode(m) == IF m.kind = "video" THEN m.n ELSE 0

\* DownloadsPage._extract_resolution_from_format (0 is None)
ExtractResolutionFromFormat(f) == IF f.form = "p" THEN f.n ELSE 0

(***************************************************************************)
(* The state.                                                              *)
(***************************************************************************)
VARIABLES
    fs,          \* the download folder
    lastUrl,     \* DownloadsPage._last_url ("none" before the first preview)
    btnEnabled,  \* btn_download.isEnabled()
    nextCard,    \* the next card _start_download adds
    card,        \* the DownloadItemWidgets
    workers,     \* DownloadsPage._workers: URL -> worker (0 is no entry)
    ui,          \* what the UI thread is in the middle of
    req,         \* the request fields of each worker as they are now
    ctor,        \* the request fields __init__ was given
    wk,          \* the other fields of each worker and the locals of run()
    wpc,         \* where run() of each worker is
    snap,        \* output_files of run(): the result of its glob
    proc,        \* the yt-dlp process of each worker
    pipe,        \* stdout of the process: lines printed and not yet read
    log,         \* the signals each worker has emitted, in order
    connected,   \* the worker's signals are connected to the page's slots
    finQ,        \* a finished signal queued for the UI thread (its path)
    bg,          \* _background_format_check thread: the tier it was given
    adjQ,        \* queued quality_adjustment_detected: the probed maximum
    notes,       \* quality adjustments reported for each card
    hist         \* history of each worker, for the properties only

vars == <<fs, lastUrl, btnEnabled, nextCard, card, workers, ui, req, ctor, wk,
          wpc, snap, proc, pipe, log, connected, finQ, bg, adjQ, notes, hist>>

NoReq == [url |-> "none", output |-> "none", mode |-> NoMode,
          no_playlist |-> TRUE, channel |-> "none"]
NoCard == [inList |-> FALSE, worker |-> FALSE, worker_url |-> "none",
           title |-> NoTitle, fmt |-> NoFmt]
NoProc == [st |-> "none", rc |-> 0, printed |-> 0, fmt |-> <<>>,
           args |-> NoArgs]
Idle == [op |-> "idle", c |-> 0]
\* cancelAt: the length of the log when cancel() found the process running
\* (-1: never); cancelRan: that cancel() has returned; cancelLate: cancel()
\* was called after run() had returned; produced: the process created a file;
\* dup: how the duplicate check went (as in DupOutcomes); started: the
\* workers started for the request of the card;
\* check, requested, probe: the format check of the download, the mode of
\* the preset and what the listing probe found (as in PreFlight); label: the
\* format label of the preset; height: what the look at the finished file
\* found (as in OnFinished; -2: it has not run); sawError, sawDest, sawRise: the loop processed an error
\* line, a destination line, a percent line above every earlier one;
\* sawBad: it processed a progress line with a malformed percent token;
\* offThread: a thread other than the UI thread has written the card
NoHist == [cancelAt |-> -1, cancelRan |-> FALSE, cancelLate |-> FALSE,
           produced |-> FALSE, dup |-> "none", started |-> 0,
           check |-> "none",
           requested |-> NoMode,
           probe |-> -1, label |-> NoFmt, height |-> -2,
           sawError |-> FALSE, sawDest |-> FALSE, sawRise |-> FALSE,
           sawBad |-> FALSE, offThread |-> FALSE,
           maxPct |-> -1]

InitWith(dirs) ==
    /\ fs \in dirs
    /\ lastUrl = "none"
    /\ btnEnabled = FALSE
    /\ nextCard = 1
    /\ card = [c \in Cards |-> NoCard]
    /\ workers = [u \in URLs |-> 0]
    /\ ui = Idle
    /\ req = [c \in Cards |-> NoReq]
    /\ ctor = [c \in Cards |-> NoReq]
    /\ wk = [c \in Cards |-> NewWorker]
    /\ wpc = [c \in Cards |-> "none"]
    /\ snap = [c \in Cards |-> <<>>]
    /\ proc = [c \in Cards |-> NoProc]
    /\ pipe = [c \in Cards |-> <<>>]
    /\ log = [c \in Cards |-> <<>>]
    /\ connected = [c \in Cards |-> FALSE]
    /\ finQ = [c \in Cards |-> NoPath]
    /\ bg = [c \in Cards |-> 0]
    /\ adjQ = [c \in Cards |-> <<>>]
    /\ notes = [c \in Cards |-> <<>>]
    /\ hist = [c \in Cards |-> NoHist]


(***************************************************************************)
(* The page: preview, download button, duplicate check, pre-flight check   *)
(* and the start of a worker.                                              *)
(***************************************************************************)
\* DownloadsPage._on_preview: a preview of url u succeeded
OnPreview(u) ==
    /\ ui = Idle
    /\ lastUrl # u \/ ~btnEnabled
    /\ lastUrl' = u
    /\ btnEnabled' = TRUE
    /\ UNCHANGED <<fs, nextCard, card, workers, ui, req, ctor, wk, wpc, snap,
                   proc, pipe, log, connected, finQ, bg, adjQ, notes, hist>>

\* DownloadsPage._on_format_changed while the controls are visible
OnFormatChanged ==
    /\ ui = Idle
    /\ lastUrl # "none"
    /\ ~btnEnabled
    /\ btnEnabled' = TRUE
    /\ UNCHANGED <<fs, lastUrl, nextCard, card, workers, ui, req, ctor, wk, wpc,
                   snap, proc, pipe, log, connected, finQ, bg, adjQ, notes,
                   hist>>

\* DownloadsPage._check_available_formats_and_start up to the start of the
\* worker: the mode the worker is given, the adjustment shown on the card
\* (0: none) and the tier handed to a background check (0: no thread).
\* probe: -1 the listing failed or timed out, 0 no resolution parsed, else
\* the maximum height _parse_max_resolution found.
PreFlightAlwaysAdjusts(mode, check, probe) ==
    IF mode.kind = "video" /\ check = "sync" /\ probe > 0
    THEN [mode |-> Mode("video", probe), adj |-> probe, bg |-> 0]
    ELSE [mode |-> mode, adj |-> 0,
          bg |-> IF mode.kind = "video" /\ check = "background"
                 THEN mode.n ELSE 0]
PreFlightKeepsMode(mode, check, probe) ==
    [mode |-> mode, adj |-> 0,
     bg |-> IF mode.kind = "video" /\ check = "background" THEN mode.n ELSE 0]
PreFlight(mode, check, probe) ==
    LET selected == ExtractResolutionFromMode(mode)
    IN IF mode.kind # "video" \/ check = "skip"
       THEN [mode |-> mode, adj |-> 0, bg |-> 0]
       ELSE IF check = "background"
       THEN [mode |-> mode, adj |-> 0, bg |-> mode.n]
       ELSE IF probe > 0 /\ selected # 0 /\ probe < selected
       THEN [mode |-> Mode("video", probe), adj |-> probe, bg |-> 0]
       ELSE [mode |-> mode, adj |-> 0, bg |-> 0]

\* How _check_file_exists_and_handle_duplicate went: "none" (no file of that
\* name), the choice the dialog returned ("other": none of the three), or an
\* exception caught by its handler, raised before a worker was started
\* ("raise") or by the statements of _start_download_worker that follow
\* worker.start() ("raise_late", here on the path without a conflict).
DupOutcomes(conflict) ==
    IF conflict
    THEN {"overwrite", "rename", "cancel", "other", "raise"}
    ELSE {"none", "raise", "raise_late"}
\* the branches that remove the card and start nothing
Aborts(dup) == dup \in {"cancel", "other"}
\* the calls of worker.start() of one request: the handler of the exception
\* calls _check_available_formats_and_start whatever was started before
StartsOf(dup) == IF Aborts(dup) THEN 0 ELSE IF dup = "raise_late" THEN 2 ELSE 1

\* DownloadsPage._start_download: the click on the download button, with
\* _check_file_exists_and_handle_duplicate, the pre-flight check and
\* _start_download_worker. p: the preset selected in the combo; dup: how the
\* duplicate check went; check: the format-check settings.
StartDownloadWith(c, p, dup, check, probe, no_playlist) ==
    /\ ui = Idle
    /\ btnEnabled
    /\ lastUrl # "none"
    /\ c = nextCard
    /\ dup \in DupOutcomes(Exists(fs, MediaName(lastUrl)))
    /\ (p.mode.kind # "video" \/ Aborts(dup)) => check = "skip"
    /\ check # "sync" => probe = -1
    /\ LET u == lastUrl
           pf == PreFlight(p.mode, check, probe)
           r == [url |-> u, output |-> "dir", mode |-> pf.mode,
                 no_playlist |-> no_playlist, channel |-> "ch"]
       IN /\ nextCard' = c + 1
          /\ fs' = IF dup = "overwrite" THEN Remove(fs, MediaName(u)) ELSE fs
          /\ IF Aborts(dup)
             THEN UNCHANGED <<card, workers, req, ctor, wpc, connected,
                              btnEnabled, bg, notes>>
             ELSE /\ card' = [card EXCEPT ![c] =
                        [inList |-> TRUE, worker |-> TRUE, worker_url |-> u,
                         title |-> IF dup = "rename"
                                   THEN GenerateUniqueFilename(fs, u)
                                   ELSE BaseTitle,
                         fmt |-> IF pf.adj # 0
                                 THEN Fmt(p.fmt.video, "adj", pf.adj)
                                 ELSE p.fmt]]
                  /\ workers' = [workers EXCEPT ![u] = c]
                  /\ req' = [req EXCEPT ![c] = r]
                  /\ ctor' = [ctor EXCEPT ![c] = r]
                  /\ wpc' = [wpc EXCEPT ![c] = "created"]
                  /\ connected' = [connected EXCEPT ![c] = TRUE]
                  /\ btnEnabled' = FALSE
                  /\ bg' = [bg EXCEPT ![c] = pf.bg]
                  /\ notes' = IF pf.adj # 0
                              THEN [notes EXCEPT ![c] =
                                      Append(@, <<"pre", p.mode.n, pf.adj>>)]
                              ELSE notes
          /\ hist' = [hist EXCEPT ![c].dup = dup,
                                  ![c].started = StartsOf(dup),
                                  ![c].check = check,
                                  ![c].requested = p.mode,
                                  ![c].label = p.fmt,
                                  ![c].probe = probe]
    /\ UNCHANGED <<lastUrl, ui, wk, snap, proc, pipe, log, finQ, adjQ>>

\* the same with the "noPlaylist" setting at its default
StartDownload(c, p, dup, check, probe) ==
    StartDownloadWith(c, p, dup, check, probe, TRUE)

\* DownloadsPage._background_format_check (its own thread)
\* emitted: quality_adjustment_detected.emit did not raise; when it raises,
\* the fallback calls _update_format_info_for_quality in this thread
BackgroundFormatCheckWith(c, probe, emitted) ==
    /\ bg[c] # 0
    /\ bg' = [bg EXCEPT ![c] = 0]
    /\ LET lower == probe > 0 /\ probe < bg[c]
           direct == lower /\ ~emitted
       IN /\ adjQ' = IF lower /\ emitted
                     THEN [adjQ EXCEPT ![c] = <<bg[c], probe>>]
                     ELSE adjQ
          /\ card' = IF direct
                     THEN [card EXCEPT ![c].fmt = Fmt(@.video, "adj", probe)]
                     ELSE card
          /\ req' = IF direct /\ card[c].worker
                    THEN [req EXCEPT ![c].mode = Mode("video", probe)]
                    ELSE req
          /\ hist' = [hist EXCEPT ![c].probe = probe,
                                  ![c].offThread = @ \/ direct]
    /\ UNCHANGED <<fs, lastUrl, btnEnabled, nextCard, workers, ui, ctor, wk,
                   wpc, snap, proc, pipe, log, connected, finQ, notes>>

\* the same with an emit that does not raise
BackgroundFormatCheck(c, probe) == BackgroundFormatCheckWith(c, probe, TRUE)

\* DownloadsPage._handle_quality_adjustment (slot of quality_adjustment_detected):
\* _update_format_info_for_quality, then _update_worker_mode
HandleQualityAdjustment(c) ==
    /\ ui = Idle
    /\ adjQ[c] # <<>>
    /\ LET max_resolution == adjQ[c][2]
       IN /\ card' = [card EXCEPT ![c].fmt = Fmt(@.video, "p", max_resolution)]
          /\ req' = IF card[c].worker
                    THEN [req EXCEPT ![c].mode = Mode("video", max_resolution)]
                    ELSE req
          /\ notes' = [notes EXCEPT ![c] =
                          Append(@, <<"background", adjQ[c][1], max_resolution>>)]
    /\ adjQ' = [adjQ EXCEPT ![c] = <<>>]
    /\ UNCHANGED <<fs, lastUrl, btnEnabled, nextCard, workers, ui, ctor, wk, wpc,
                   snap, proc, pipe, log, connected, finQ, bg, hist>>

\* DownloadsPage._on_finished (slot of finished) with
\* _check_and_update_actual_quality. height: what ffprobe reports for the
\* file (-1: it failed or timed out).
OnFinished(c, height) ==
    /\ ui = Idle
    /\ finQ[c] # NoPath
    /\ finQ' = [finQ EXCEPT ![c] = NoPath]
    /\ LET probed == Exists(fs, finQ[c]) /\ card[c].fmt.video
           original_res == ExtractResolutionFromFormat(card[c].fmt)
           differs == probed /\ height > 0 /\ original_res # 0
                      /\ height # original_res
           mode1 == IF differs /\ card[c].worker
                    THEN Mode("video", height) ELSE req[c].mode
           worker_res == ExtractResolutionFromMode(mode1)
           mode2 == IF probed /\ height > 0 /\ card[c].worker
                       /\ worker_res # 0 /\ worker_res # height
                    THEN Mode("video", height) ELSE mode1
       IN /\ ~probed => height = -1
          /\ card' = IF differs
                     THEN [card EXCEPT ![c].fmt = Fmt(@.video, "adj", height)]
                     ELSE card
          /\ notes' = IF differs
                      THEN [notes EXCEPT ![c] =
                              Append(@, <<"post", original_res, height>>)]
                      ELSE notes
          /\ req' = [req EXCEPT ![c].mode = mode2]
    /\ hist' = [hist EXCEPT ![c].height = height]
    /\ UNCHANGED <<fs, lastUrl, btnEnabled, nextCard, workers, ui, ctor, wk, wpc,
                   snap, proc, pipe, log, connected, bg, adjQ>>


(***************************************************************************)
(* The external yt-dlp process of a worker.                                *)
(***************************************************************************)
Alive(c) == proc[c].st \in {"running", "terminating"}

\* the process prints line l; with a destination line it may create the
\* partial file it downloads into (mk)
ProcPrint(c, l, mk, maxl) ==
    /\ Alive(c)
    /\ proc[c].printed < maxl
    /\ Len(pipe[c]) < PipeCap
    /\ mk => l.dest
    /\ pipe' = [pipe EXCEPT ![c] = Append(@, l)]
    /\ proc' = [proc EXCEPT ![c].printed = @ + 1]
    /\ fs' = IF mk THEN Create(fs, PartName(req[c].url), 2) ELSE fs
    /\ hist' = IF mk THEN [hist EXCEPT ![c].produced = TRUE] ELSE hist
    /\ UNCHANGED <<lastUrl, btnEnabled, nextCard, card, workers, ui, req, ctor,
                   wk, wpc, snap, log, connected, finQ, bg, adjQ, notes>>

\* the process exits by itself. With status 0 it leaves no file ("none") or
\* its output file of size class out, in place of the partial file.
ProcExit(c, code, out) ==
    /\ Alive(c)
    /\ code = 0 => proc[c].st = "running"
    /\ code # 0 => out = "none"
    /\ proc' = [proc EXCEPT ![c].st = "exited", ![c].rc = code]
    /\ fs' = IF out = "none" THEN fs
             ELSE Create(Remove(fs, PartName(req[c].url)),
                         MediaName(req[c].url),
                         CASE out = "small" -> 0 [] out = "short" -> 1
                           [] OTHER -> 2)
    /\ hist' = IF out = "none" THEN hist
               ELSE [hist EXCEPT ![c].produced = TRUE]
    /\ UNCHANGED <<lastUrl, btnEnabled, nextCard, card, workers, ui, req, ctor,
                   wk, wpc, snap, pipe, log, connected, finQ, bg, adjQ, notes>>

(***************************************************************************)
(* _DownloadWorker.run, statement by statement where it reads or writes    *)
(* what other threads or the process share.                                *)
(***************************************************************************)
\* _DownloadWorker._cleanup_partial_files: self._last_path is never assigned,
\* so only the two globs "*.part" and "*.ytdl" of the output directory apply
MissingCleanup(dir) == dir
CleanupPartialFiles(dir) == SelectSeq(dir, LAMBDA f : ~IsPartial(f))

\* the worker emits the signals evs; a connected finished signal is queued
Emit(c, evs) ==
    /\ log' = [log EXCEPT ![c] = @ \o evs]
    /\ finQ' = IF connected[c] /\ evs # <<>> /\ evs[Len(evs)][1] = "finished"
               THEN [finQ EXCEPT ![c] = evs[Len(evs)][2]]
               ELSE finQ

\* run() up to subprocess.Popen: progressChanged(1) and the launch
RunStart(c, popen) ==
    /\ wpc[c] = "created"
    /\ IF popen = "ok"
       THEN /\ proc' = [proc EXCEPT
                          ![c].st = "running",
                          ![c].fmt = FormatSelector(req[c].mode),
                          ![c].args = BuildArgs(req[c].mode,
                                                req[c].no_playlist)]
            /\ wpc' = [wpc EXCEPT ![c] = "launched"]
            /\ Emit(c, <<Prog(1)>>)
       ELSE /\ wpc' = [wpc EXCEPT ![c] = "done"]
            /\ Emit(c, <<Prog(1), ErrorEv(IF popen = "enoent"
                                          THEN "tool_not_found"
                                          ELSE "permission")>>)
            /\ UNCHANGED proc
    /\ UNCHANGED <<fs, lastUrl, btnEnabled, nextCard, card, workers, ui, req,
                   ctor, wk, snap, pipe, connected, bg, adjQ, notes, hist>>

\* self._process = proc
RunStore(c) ==
    /\ wpc[c] = "launched"
    /\ wk' = [wk EXCEPT ![c].process = TRUE]
    /\ wpc' = [wpc EXCEPT ![c] = "loop"]
    /\ UNCHANGED <<fs, lastUrl, btnEnabled, nextCard, card, workers, ui, req,
                   ctor, snap, proc, pipe, log, connected, finQ, bg, adjQ,
                   notes, hist>>

\* what the loop has seen once it has processed line l
Observe(h, l) ==
    [h EXCEPT !.sawError = @ \/ l.err \/ l.fatal # "none" \/ l.exists,
              !.sawDest = @ \/ l.dest,
              !.sawRise = @ \/ (l.pct >= 0 /\ l.pct \div 10 > h.maxPct),
              !.sawBad = @ \/ (l.dl /\ l.pct = -1),
              !.maxPct = IF l.pct >= 0 THEN Max(@, l.pct \div 10) ELSE @]

\* one iteration of the loop: the cancellation test (proc.terminate() and
\* on to the wait), or the processing of the line
RunLine(c, tick) ==
    /\ wpc[c] = "loop"
    /\ pipe[c] # <<>>
    /\ tick => (wk[c].download_completed /\ wk[c].conversion_started
                /\ ~wk[c].cancelled)
    /\ pipe' = [pipe EXCEPT ![c] = Tail(@)]
    /\ IF wk[c].cancelled
       THEN /\ proc' = IF proc[c].st = "running"
                       THEN [proc EXCEPT ![c].st = "terminating"] ELSE proc
            /\ wpc' = [wpc EXCEPT ![c] = "cancelwait"]
            /\ UNCHANGED <<wk, log, finQ, hist>>
       ELSE LET r == ProcessLine(wk[c], Head(pipe[c]), tick,
                                 MediaName(req[c].url))
            IN /\ wk' = [wk EXCEPT ![c] = r.w]
               /\ hist' = [hist EXCEPT ![c] = Observe(@, Head(pipe[c]))]
               /\ IF r.raised # "none"
                  THEN /\ Emit(c, <<ErrorEv(r.raised)>>)
                       /\ wpc' = [wpc EXCEPT ![c] = "done"]
                  ELSE /\ Emit(c, r.emits)
                       /\ UNCHANGED wpc
               /\ UNCHANGED proc
    /\ UNCHANGED <<fs, lastUrl, btnEnabled, nextCard, card, workers, ui, req,
                   ctor, snap, connected, bg, adjQ, notes>>

\* the cancellation path of the loop after proc.terminate(): proc.wait(2)
\* has returned or timed out (swallowed), _cleanup_partial_files(), return
RunCancelled(c) ==
    /\ wpc[c] = "cancelwait"
    /\ fs' = CleanupPartialFiles(fs)
    /\ wpc' = [wpc EXCEPT ![c] = "done"]
    /\ UNCHANGED <<lastUrl, btnEnabled, nextCard, card, workers, ui, req, ctor,
                   wk, snap, proc, pipe, log, connected, finQ, bg, adjQ, notes,
                   hist>>

\* RunEOF with the error of the return code test emitted and not raised
RunEOFEmitsExitCode(c) ==
    /\ wpc[c] = "loop"
    /\ pipe[c] = <<>>
    /\ proc[c].st = "exited"
    /\ IF wk[c].error_detected
       THEN /\ Emit(c, <<ErrorEv(wk[c].error_message)>>)
            /\ wpc' = [wpc EXCEPT ![c] = "done"]
       ELSE /\ Emit(c, IF proc[c].rc # 0 THEN <<ErrorEv("exit_code")>>
                       ELSE <<>>)
            /\ wpc' = [wpc EXCEPT ![c] = "check"]
    /\ UNCHANGED <<fs, lastUrl, btnEnabled, nextCard, card, workers, ui, req,
                   ctor, wk, snap, proc, pipe, connected, bg, adjQ, notes,
                   hist>>

\* the output has ended: proc.wait(), then the error_detected and the
\* return code tests
RunEOF(c) ==
    /\ wpc[c] = "loop"
    /\ pipe[c] = <<>>
    /\ proc[c].st = "exited"
    /\ IF wk[c].error_detected
       THEN /\ Emit(c, <<ErrorEv(wk[c].error_message)>>)
            /\ wpc' = [wpc EXCEPT ![c] = "done"]
       ELSE IF proc[c].rc # 0
       THEN /\ Emit(c, <<ErrorEv("exit_code")>>)
            /\ wpc' = [wpc EXCEPT ![c] = "done"]
       ELSE /\ wpc' = [wpc EXCEPT ![c] = "check"]
            /\ UNCHANGED <<log, finQ>>
    /\ UNCHANGED <<fs, lastUrl, btnEnabled, nextCard, card, workers, ui, req,
                   ctor, wk, snap, proc, pipe, connected, bg, adjQ, notes,
                   hist>>

\* "if not last_path or not os.path.exists(last_path)" and the glob
RunCheck(c) ==
    /\ wpc[c] = "check"
    /\ IF wk[c].last_path # NoPath /\ Exists(fs, wk[c].last_path)
       THEN /\ wpc' = [wpc EXCEPT ![c] = "recheck"]
            /\ UNCHANGED <<snap, log, finQ>>
       ELSE IF fs = <<>>
       THEN /\ Emit(c, <<ErrorEv("no_file")>>)
            /\ wpc' = [wpc EXCEPT ![c] = "done"]
            /\ UNCHANGED snap
       ELSE /\ snap' = [snap EXCEPT ![c] = [i \in 1..Len(fs) |-> fs[i].name]]
            /\ wpc' = [wpc EXCEPT ![c] = "latest"]
            /\ UNCHANGED <<log, finQ>>
    /\ UNCHANGED <<fs, lastUrl, btnEnabled, nextCard, card, workers, ui, req,
                   ctor, wk, proc, pipe, connected, bg, adjQ, notes, hist>>

\* the entry of dir created last among the names (max by os.path.getctime)
Latest(dir, names) ==
    LET idx == {i \in 1..Len(dir) : \E j \in 1..Len(names) : dir[i].name = names[j]}
    IN dir[CHOOSE i \in idx : \A k \in idx : k <= i]

\* "latest_file = max(output_files, key=os.path.getctime)" and os.path.isfile
RunLatest(c) ==
    /\ wpc[c] = "latest"
    /\ IF \E j \in 1..Len(snap[c]) : ~Exists(fs, snap[c][j])
       THEN /\ Emit(c, <<ErrorEv("tool_not_found")>>)
            /\ wpc' = [wpc EXCEPT ![c] = "done"]
            /\ UNCHANGED wk
       ELSE IF IsFile(Latest(fs, snap[c]))
       THEN /\ wk' = [wk EXCEPT ![c].last_path = Latest(fs, snap[c]).name]
            /\ wpc' = [wpc EXCEPT ![c] = "recheck"]
            /\ UNCHANGED <<log, finQ>>
       ELSE /\ Emit(c, <<ErrorEv("no_valid_file")>>)
            /\ wpc' = [wpc EXCEPT ![c] = "done"]
            /\ UNCHANGED wk
    /\ snap' = [snap EXCEPT ![c] = <<>>]
    /\ UNCHANGED <<fs, lastUrl, btnEnabled, nextCard, card, workers, ui, req,
                   ctor, proc, pipe, connected, bg, adjQ, notes, hist>>

\* "if last_path and os.path.exists(last_path)": on to the size test, or
\* past the whole validation to progressChanged(100) and finished
RunRecheck(c) ==
    /\ wpc[c] = "recheck"
    /\ IF Exists(fs, wk[c].last_path)
       THEN /\ wpc' = [wpc EXCEPT ![c] = "size"]
            /\ UNCHANGED <<log, finQ>>
       ELSE /\ Emit(c, <<Prog(100), Finished(wk[c].last_path)>>)
            /\ wpc' = [wpc EXCEPT ![c] = "done"]
    /\ UNCHANGED <<fs, lastUrl, btnEnabled, nextCard, card, workers, ui, req,
                   ctor, wk, snap, proc, pipe, connected, bg, adjQ, notes,
                   hist>>

\* the validation of the file: the terminal signal of a run that passed the
\* return code test and found its file
NoProgressTest(w, dir) ==
    IF ~Exists(dir, w.last_path) THEN ErrorEv("tool_not_found")
    ELSE IF SizeOf(dir, w.last_path) < 1 THEN ErrorEv("too_small")
    ELSE IF ~w.download_started THEN ErrorEv("not_started")
    ELSE Finished(w.last_path)
Validate(w, dir) ==
    IF ~Exists(dir, w.last_path) THEN ErrorEv("tool_not_found")
    ELSE IF SizeOf(dir, w.last_path) < 1 THEN ErrorEv("too_small")
    ELSE IF ~w.download_started THEN ErrorEv("not_started")
    ELSE IF ~w.real_progress_detected THEN ErrorEv("no_progress")
    ELSE Finished(w.last_path)

\* RunSize with progressChanged(100) emitted before the tests
RunSizeHundredFirst(c) ==
    /\ wpc[c] = "size"
    /\ Emit(c, <<Prog(100), Validate(wk[c], fs)>>)
    /\ wpc' = [wpc EXCEPT ![c] = "done"]
    /\ UNCHANGED <<fs, lastUrl, btnEnabled, nextCard, card, workers, ui, req,
                   ctor, wk, snap, proc, pipe, connected, bg, adjQ, notes,
                   hist>>

\* os.path.getsize and the tests after it
RunSize(c) ==
    /\ wpc[c] = "size"
    /\ LET v == Validate(wk[c], fs)
       IN Emit(c, IF v[1] = "finished" THEN <<Prog(100), v>> ELSE <<v>>)
    /\ wpc' = [wpc EXCEPT ![c] = "done"]
    /\ UNCHANGED <<fs, lastUrl, btnEnabled, nextCard, card, workers, ui, req,
                   ctor, wk, snap, proc, pipe, connected, bg, adjQ, notes,
                   hist>>


(***************************************************************************)
(* The cancel button of a card (UI thread).                                *)
(***************************************************************************)
\* DownloadItemWidget._on_cancel_clicked into _DownloadWorker.cancel():
\* the flag, the poll() test and proc.terminate()
CancelBegin(c) ==
    /\ ui = Idle
    /\ card[c].inList
    /\ card[c].worker
    /\ wk' = [wk EXCEPT ![c].cancelled = TRUE]
    /\ IF wk[c].process /\ Alive(c)
       THEN /\ proc' = [proc EXCEPT ![c].st = "terminating"]
            /\ ui' = [op |-> "cancel_wait", c |-> c]
       ELSE /\ ui' = [op |-> "cancel_cleanup", c |-> c]
            /\ UNCHANGED proc
    /\ hist' = [hist EXCEPT
                   ![c].cancelAt = IF proc[c].st = "running" /\ @ = -1
                                   THEN Len(log[c]) ELSE @,
                   ![c].cancelLate = wpc[c] = "done"]
    /\ UNCHANGED <<fs, lastUrl, btnEnabled, nextCard, card, workers, req, ctor,
                   wpc, snap, pipe, log, connected, finQ, bg, adjQ, notes>>

\* the rest of cancel(): proc.wait(timeout=2), proc.kill() when it timed
\* out, then _cleanup_partial_files()
CancelEnd(c) ==
    /\ ui.c = c
    /\ ui.op \in {"cancel_wait", "cancel_cleanup"}
    /\ proc' = IF ui.op = "cancel_wait" /\ Alive(c)
               THEN [proc EXCEPT ![c].st = "exited", ![c].rc = 1]
               ELSE proc
    /\ fs' = CleanupPartialFiles(fs)
    /\ ui' = [op |-> "clicked", c |-> c]
    /\ hist' = IF hist[c].cancelAt # -1
               THEN [hist EXCEPT ![c].cancelRan = TRUE] ELSE hist
    /\ UNCHANGED <<lastUrl, btnEnabled, nextCard, card, workers, req, ctor, wk,
                   wpc, snap, pipe, log, connected, finQ, bg, adjQ, notes>>

\* the rest of _on_cancel_clicked: join(2), the disconnects, the registry
\* pop, _cleanup_partial_files_widget() and the removal of the card
CancelClicked(c) ==
    /\ ui = [op |-> "clicked", c |-> c]
    /\ connected' = [connected EXCEPT ![c] = FALSE]
    /\ finQ' = [finQ EXCEPT ![c] = NoPath]
    /\ workers' = [workers EXCEPT ![card[c].worker_url] = 0]
    /\ fs' = CleanupPartialFiles(fs)
    /\ card' = [card EXCEPT ![c].inList = FALSE]
    /\ ui' = Idle
    /\ UNCHANGED <<lastUrl, btnEnabled, nextCard, req, ctor, wk, wpc, snap,
                   proc, pipe, log, bg, adjQ, notes, hist>>

(***************************************************************************)
(* Specifications.                                                         *)
(***************************************************************************)
\* the lines of a download with its postprocessing and its failures
RunLines == {LDest, LHundred, LMerge, LError, LUnavailable, LExists}
\* the lines of a plain download
PageLines == {LDest, LHundred}

WorkerStep(c, lines, maxl) ==
    \/ \E popen \in {"ok", "enoent"} : RunStart(c, popen)
    \/ RunStore(c)
    \/ \E tick \in BOOLEAN : RunLine(c, tick)
    \/ RunCancelled(c)
    \/ RunEOF(c)
    \/ RunCheck(c)
    \/ RunLatest(c)
    \/ RunRecheck(c)
    \/ RunSize(c)
    \/ \E l \in lines, mk \in BOOLEAN : ProcPrint(c, l, mk, maxl)
    \/ \E code \in {0, 1}, out \in {"none", "small", "short", "full"} :
          ProcExit(c, code, out)

CancelStep(c) ==
    \/ CancelBegin(c)
    \/ CancelEnd(c)
    \/ CancelClicked(c)

\* one download of one URL, every line of RunLines, no format check
InitRun == InitWith({<<>>, <<OldFile>>, <<OldDir>>})
NextRun ==
    \/ lastUrl = "none" /\ OnPreview("u1")
    \/ StartDownload(1, P1080, "none", "skip", -1)
    \/ WorkerStep(1, RunLines, MaxLines)
    \/ CancelStep(1)
SpecRun == InitRun /\ [][NextRun]_vars

\* the steps of a worker whose process prints destination lines, each with
\* its partial file, and fails or is stopped
FailingStep(c) ==
    \/ RunStart(c, "ok")
    \/ RunStore(c)
    \/ RunLine(c, FALSE)
    \/ RunCancelled(c)
    \/ RunEOF(c)
    \/ ProcPrint(c, LDest, TRUE, MaxPairLines)
    \/ ProcExit(c, 1, "none")

\* two cards: previews of either URL, format changes, downloads started one
\* after the other into the same folder, and cancels
InitPair == InitWith({<<>>})
NextPair ==
    \/ \E u \in URLs : lastUrl # u /\ OnPreview(u)
    \/ OnFormatChanged
    \/ \E c \in Cards : StartDownload(c, P1080, "none", "skip", -1)
    \/ \E c \in Cards : FailingStep(c)
    \/ \E c \in Cards : CancelStep(c)
SpecPair == InitPair /\ [][NextPair]_vars

\* one download with the format checks: the pre-flight check, the
\* background check and the look at the finished file
Heights == {720, 1080}
InitQuality == InitWith({<<>>})
NextQuality ==
    \/ lastUrl = "none" /\ OnPreview("u1")
    \/ \E p \in {P720, P1080, P2160, PMp3}, check \in {"skip", "background", "sync"},
          probe \in {-1, 0} \cup Heights :
          StartDownload(1, p, "none", check, probe)
    \/ \E probe \in {-1, 0} \cup Heights : BackgroundFormatCheck(1, probe)
    \/ HandleQualityAdjustment(1)
    \/ \E height \in {-1} \cup Heights : OnFinished(1, height)
    \/ WorkerStep(1, PageLines, MaxLines)
    \/ CancelStep(1)
SpecQuality == InitQuality /\ [][NextQuality]_vars

\* download folders that hold the video of u1 and numbered copies of it: the
\* copies 1..top, without the copy numbered hole
CopiesUpTo(u, top) == [i \in 1..top |-> File(CopyName(u, i), 2)]
NameDir(u, top, hole) ==
    <<File(MediaName(u), 2)>>
        \o SelectSeq(CopiesUpTo(u, top), LAMBDA f : f.name.n # hole)
NameDirs ==
    {<<>>} \cup {NameDir("u1", top, hole) :
                    top \in {0, 1, 2, MaxCounter - 1, MaxCounter},
                    hole \in {0, 1, 2, MaxCounter}}
\* one download into such a folder, with every outcome of the duplicate check
InitNames == InitWith(NameDirs)
NextNames ==
    \/ lastUrl = "none" /\ OnPreview("u1")
    \/ \E dup \in DupOutcomes(TRUE) \cup DupOutcomes(FALSE) :
          StartDownload(1, P1080, dup, "skip", -1)
    \/ FailingStep(1)
    \/ CancelStep(1)
SpecNames == InitNames /\ [][NextNames]_vars

\* one download with each preset of the combo, with the default mode and
\* with a mode run() does not know, with the "noPlaylist" setting on and off
AllPresets == VideoPresets \cup AudioPresets \cup {PVideoBest, PUnknown}
InitPresets == InitWith({<<>>})
NextPresets ==
    \/ lastUrl = "none" /\ OnPreview("u1")
    \/ \E p \in AllPresets, no_playlist \in BOOLEAN :
          StartDownloadWith(1, p, "none", "skip", -1, no_playlist)
    \/ FailingStep(1)
    \/ CancelStep(1)
SpecPresets == InitPresets /\ [][NextPresets]_vars

\* one download whose process prints error lines, lines with each phrase of
\* the raise chain and lines about a format that is not available
MessageLines ==
    {LDest, LHundred, LError, LUnavailable, LPrivate, LUnsupported, LNoFormats,
     LRequestedFormat, LFormatNA}
InitMessages == InitWith({<<>>})
NextMessages ==
    \/ lastUrl = "none" /\ OnPreview("u1")
    \/ StartDownload(1, P1080, "none", "skip", -1)
    \/ WorkerStep(1, MessageLines, MaxLines)
    \/ CancelStep(1)
SpecMessages == InitMessages /\ [][NextMessages]_vars

\* one download whose process prints one percent line, with every percent
\* token from 0.0 to 100.0 in steps of a tenth, and fails
Percents == 0..1000
InitPercent == InitWith({<<>>})
NextPercent ==
    \/ lastUrl = "none" /\ OnPreview("u1")
    \/ StartDownload(1, P1080, "none", "skip", -1)
    \/ RunStart(1, "ok")
    \/ RunStore(1)
    \/ RunLine(1, FALSE)
    \/ RunEOF(1)
    \/ \E p \in Percents :
          proc[1].printed = 0 /\ ProcPrint(1, LPct(p), FALSE, MaxLines)
    \/ ProcExit(1, 1, "none")
SpecPercent == InitPercent /\ [][NextPercent]_vars

\* one download whose process prints progress lines, well-formed and
\* malformed, and the lines of the end of the postprocessing
ProgressLines == {LDest, LPct(300), LHundred, LPost, LBadPct, LBadSize}
InitProgress == InitWith({<<>>})
NextProgress ==
    \/ lastUrl = "none" /\ OnPreview("u1")
    \/ StartDownload(1, P1080, "none", "skip", -1)
    \/ WorkerStep(1, ProgressLines, MaxLines)
    \/ CancelStep(1)
SpecProgress == InitProgress /\ [][NextProgress]_vars

\* one download with the background check, whose signal may fail to be
\* emitted, beside a worker whose process fails or is stopped
InitThreads == InitWith({<<>>})
NextThreads ==
    \/ lastUrl = "none" /\ OnPreview("u1")
    \/ StartDownload(1, P1080, "none", "background", -1)
    \/ \E probe \in {-1, 0} \cup Heights, emitted \in BOOLEAN :
          BackgroundFormatCheckWith(1, probe, emitted)
    \/ HandleQualityAdjustment(1)
    \/ FailingStep(1)
    \/ CancelStep(1)
SpecThreads == InitThreads /\ [][NextThreads]_vars

\* one download that is cancelled at any moment, under fair scheduling:
\* the worker thread takes its next step whenever it has one, the UI thread
\* finishes the handler of the cancel button, and a process that was asked
\* to terminate exits. Nothing forces the process to print or, left alone,
\* to exit, and nothing forces the click itself.
InitCancel == InitWith({<<>>})
WorkerRuns(c) ==
    \/ RunStart(c, "ok")
    \/ RunStore(c)
    \/ RunLine(c, FALSE)
    \/ RunCancelled(c)
    \/ RunEOF(c)
CancelHandlerEnds(c) == CancelEnd(c) \/ CancelClicked(c)
TerminatedExits(c) == proc[c].st = "terminating" /\ ProcExit(c, 1, "none")
NextCancel ==
    \/ lastUrl = "none" /\ OnPreview("u1")
    \/ StartDownload(1, P1080, "none", "skip", -1)
    \/ FailingStep(1)
    \/ CancelStep(1)
SpecCancelFair ==
    /\ InitCancel
    /\ [][NextCancel]_vars
    /\ WF_vars(WorkerRuns(1))
    /\ WF_vars(CancelHandlerEnds(1))
    /\ WF_vars(TerminatedExits(1))

(***************************************************************************)
(* Properties of one worker (SpecRun).                                     *)
(***************************************************************************)
IsProg(e) == e[1] = "progress"
Terminal(e) == e[1] \in {"finished", "error"}
Last(s) == s[Len(s)]
\* the worker of card c emits its finished signal in this step
FinishedNow(c) ==
    /\ Len(log'[c]) > Len(log[c])
    /\ Last(log'[c])[1] = "finished"
Entry(dir, n) == CHOOSE f \in {dir[i] : i \in 1..Len(dir)} : f.name = n

\* C1: the progress values one worker emits never decrease, whatever lines
\* the process prints: a later destination or percent line never produces a
\* value below one emitted before
C1_ProgressNonDecreasing ==
    \A c \in Cards : \A i, j \in 1..Len(log[c]) :
        (i < j /\ IsProg(log[c][i]) /\ IsProg(log[c][j]))
            => log[c][i][2] <= log[c][j][2]

\* C2: a worker emits at most one terminal signal (finished or error) and
\* nothing after it: a terminal signal is the last signal of the worker
C2_TerminalIsLast ==
    \A c \in Cards : \A i \in 1..Len(log[c]) :
        Terminal(log[c][i]) => i = Len(log[c])
\* a run that has returned after its finished signal
C2_EndedRun ==
    /\ wpc[1] = "done"
    /\ Len(log[1]) > 2
    /\ Last(log[1])[1] = "finished"

\* C3: finished is emitted only when the process exited with status 0, the
\* loop saw no error line, saw a destination line and a percent line above
\* every earlier one, and the reported path is an existing regular file of
\* at least 1024 bytes
C3_FinishedOnlyValidated ==
    [][\A c \in Cards :
          FinishedNow(c) =>
              LET p == Last(log'[c])[2]
              IN /\ proc[c].st = "exited"
                 /\ proc[c].rc = 0
                 /\ ~hist[c].sawError
                 /\ hist[c].sawDest
                 /\ hist[c].sawRise
                 /\ Exists(fs, p)
                 /\ IsFile(Entry(fs, p))
                 /\ SizeOf(fs, p) >= 1]_vars

\* C4: a run whose process exited with status 0 and created no file in the
\* output directory ends with an error, never with finished, whatever the
\* directory held before
C4_NoArtifactIsError ==
    \A c \in Cards :
        (proc[c].st = "exited" /\ proc[c].rc = 0 /\ ~hist[c].produced)
            => /\ \A i \in 1..Len(log[c]) : log[c][i][1] # "finished"
               /\ (wpc[c] = "done" /\ ~wk[c].cancelled)
                      => Last(log[c])[1] = "error"

\* C5: once cancel() has been called while the process was running, the
\* worker emits neither error nor finished
C5_SilentAfterCancel ==
    \A c \in Cards :
        hist[c].cancelAt # -1 =>
            \A i \in 1..Len(log[c]) :
                i > hist[c].cancelAt => ~Terminal(log[c][i])

\* C6: when a cancel() called while the process was running has returned,
\* the process is stopped and the output directory holds no partial file,
\* and none appears afterwards
C6_CancelStopsAndCleans ==
    \A c \in Cards :
        hist[c].cancelRan =>
            /\ proc[c].st = "exited"
            /\ Partials(fs) = {}

\* C7: cancel() called after run() has returned changes no file of the
\* output directory and adds no signal
C7_CancelAfterEndIsNoOp ==
    [][\A c \in Cards :
          (/\ ui = [op |-> "cancel_cleanup", c |-> c]
           /\ ui'.op = "clicked"
           /\ hist[c].cancelLate)
              => (fs' = fs /\ log' = log)]_vars

(***************************************************************************)
(* Properties of two workers side by side (SpecPair).                      *)
(***************************************************************************)
\* the thread of the worker of card c has been created and has not returned
Running(c) == wpc[c] \notin {"none", "done"}
\* cancel() of the worker of card c returns in this step
CancelReturns(c) ==
    /\ ui.c = c
    /\ ui.op \in {"cancel_wait", "cancel_cleanup"}
    /\ ui'.op = "clicked"
\* the partial files of the downloads of the other running workers
OthersPartials(c) ==
    {f \in Partials(fs) :
        /\ f.name.u # req[c].url
        /\ \E d \in Cards \ {c} : Running(d) /\ req[d].url = f.name.u}

\* C8: no two workers run for the same source URL at the same time
C8_OneWorkerPerUrl ==
    \A c1, c2 \in Cards :
        (c1 # c2 /\ Running(c1) /\ Running(c2)) => req[c1].url # req[c2].url

\* C9: with two workers running on the same output directory, cancel() of
\* one deletes no partial file of the other's download
C9_CancelSparesOthers ==
    [][\A c \in Cards :
          CancelReturns(c) => OthersPartials(c) \subseteq Partials(fs')]_vars

(***************************************************************************)
(* Properties of the format checks (SpecQuality).                          *)
(***************************************************************************)
\* C10: the request of a worker (url, output directory, mode, no-playlist
\* flag, channel) stays what the constructor was given, whatever the page
\* or the worker does
C10_RequestImmutable ==
    \A c \in Cards : req[c] = ctor[c]

\* the process of card c has been launched
Launched(c) == proc[c].st # "none"
\* the height cap of the first alternative of the selector it was given
LaunchedCap(c) == proc[c].fmt[1].cap
\* the listing probe of the download of card c found a maximum height below
\* the tier of the preset
ProbeBelow(c) ==
    /\ hist[c].requested.kind = "video"
    /\ hist[c].requested.n > 0
    /\ hist[c].probe > 0
    /\ hist[c].probe < hist[c].requested.n
Noted(c, kind) ==
    \E i \in 1..Len(notes[c]) :
        notes[c][i] = <<kind, hist[c].requested.n, hist[c].probe>>

C13_PostFlightAdjustment ==
    \A c \in Cards :
        (/\ hist[c].height # -2
         /\ hist[c].check = "skip"
         /\ hist[c].requested.kind = "video") =>
            IF hist[c].height > 0 /\ hist[c].height # hist[c].requested.n
            THEN /\ \E i \in 1..Len(notes[c]) :
                        notes[c][i] = <<"post", hist[c].requested.n,
                                        hist[c].height>>
                 /\ card[c].fmt = Fmt(TRUE, "adj", hist[c].height)
            ELSE /\ notes[c] = <<>>
                 /\ card[c].fmt = hist[c].label
                 /\ req[c] = ctor[c]

(***************************************************************************)
(* Properties of the duplicate check (SpecNames).                          *)
(***************************************************************************)
Renamed(c) == card[c].inList /\ hist[c].dup = "rename"
CopyExists(c, n) == Exists(fs, CopyName(card[c].worker_url, n))

\* C14: the name generated for a renamed download carries the smallest
\* counter of 1..999 whose file does not exist, so the named file does not
\* exist; when the files of all 999 counters exist, it carries a timestamp
C14_SmallestFreeCounter ==
    \A c \in Cards :
        Renamed(c) =>
            LET t == card[c].title
            IN IF \A n \in 1..MaxCounter : CopyExists(c, n)
               THEN t.stamp
               ELSE /\ ~t.stamp
                    /\ t.n \in 1..MaxCounter
                    /\ ~CopyExists(c, t.n)
                    /\ \A m \in 1..(t.n - 1) : CopyExists(c, m)
\* a rename in a folder where only the last counter is free
C14_LastCounter ==
    /\ Renamed(1)
    /\ card[1].title = Title(MaxCounter, FALSE)
    /\ \A m \in 1..(MaxCounter - 1) : CopyExists(1, m)
\* a rename in a folder where every counter is taken
C14_AllTaken ==
    /\ Renamed(1)
    /\ card[1].title.stamp

\* the download button is handled for card c in this step
Requested(c) == nextCard = c /\ nextCard' = c + 1
\* C15: a request answered with cancel or with an unrecognised choice
\* starts no worker, leaves the registry unchanged and leaves no card
\* in the list; every other request starts exactly one worker, also when
\* the duplicate check raised an exception
C15_OneWorkerPerRequest ==
    [][\A c \in Cards :
          Requested(c) =>
              IF Aborts(hist'[c].dup)
              THEN /\ hist'[c].started = 0
                   /\ wpc'[c] = "none"
                   /\ workers' = workers
                   /\ ~card'[c].inList
              ELSE hist'[c].started = 1]_vars

(***************************************************************************)
(* Properties of the command line (SpecPresets).                           *)
(***************************************************************************)
\* the generic "best" selector: no height cap and no container filter
IsGenericBest(a) == a.sel \in {"b", "best"} /\ a.cap = 0 /\ a.ext = ""
IsTier(mode) == mode.kind = "video" /\ mode.n > 0
IsAudio(mode) == mode.kind \in {"mp3", "m4a", "ogg", "wma"}
\* the alternatives of a selector up to the first one without a height cap
CappedPrefix(f) == {i \in 1..Len(f) : \A j \in 1..i : f[j].cap # 0}

\* C16: the selector a process is launched with is non-empty and its last
\* alternative is the generic "best" selector, for every preset, the
\* default mode and an unknown mode; for a video tier the alternatives
\* before the ones without a height cap are capped at the height of the
\* tier, and at least three alternatives follow the first
C16_SelectorFallsBackToBest ==
    \A c \in Cards :
        Launched(c) =>
            LET f == proc[c].fmt
                m == hist[c].requested
            IN /\ Len(f) > 0
               /\ IsGenericBest(f[Len(f)])
               /\ IsTier(m) =>
                     /\ CappedPrefix(f) # {}
                     /\ \A i \in CappedPrefix(f) : f[i].cap = m.n
                     /\ Len(f) - 1 >= 3
\* a process launched for the 4K tier
C16_TierLaunched ==
    /\ Launched(1)
    /\ hist[1].requested = P2160.mode
    /\ Len(proc[1].fmt) = 6

FormatOf(kind) ==
    CASE kind = "mp3" -> "mp3" [] kind = "m4a" -> "m4a"
      [] kind = "ogg" -> "vorbis" [] kind = "wma" -> "wma"
CodecOf(kind) ==
    CASE kind = "mp3" -> "libmp3lame" [] kind = "m4a" -> "aac"
      [] kind = "ogg" -> "libvorbis" [] kind = "wma" -> "wmav2"
\* C17: the arguments a process is launched with hold, for an audio
\* preset, --extract-audio, the --audio-format of its family, its bitrate
\* as --audio-quality (192k for a "_best" preset) and the codec of the
\* family, and no --merge-output-format; for a video preset
\* --merge-output-format mp4 and none of the audio arguments; and
\* --no-playlist exactly when the flag of the request is set
C17_ArgsMatchPreset ==
    \A c \in Cards :
        Launched(c) =>
            LET a == proc[c].args
                m == hist[c].requested
            IN /\ IsAudio(m) =>
                     /\ a.extract_audio
                     /\ a.audio_format = FormatOf(m.kind)
                     /\ a.audio_quality = (IF m.n = 0 THEN 192 ELSE m.n)
                     /\ a.codec = CodecOf(m.kind)
                     /\ a.merge_output_format = ""
               /\ m.kind = "video" =>
                     /\ a.merge_output_format = "mp4"
                     /\ ~a.extract_audio
                     /\ a.audio_format = ""
                     /\ a.audio_quality = 0
                     /\ a.codec = ""
               /\ a.no_playlist = ctor[c].no_playlist
\* a process launched for the 320 kbps preset of M4A without --no-playlist
C17_AudioLaunched ==
    /\ Launched(1)
    /\ hist[1].requested = Mode("m4a", 320)
    /\ ~ctor[1].no_playlist
    /\ proc[1].args.extract_audio

(***************************************************************************)
(* Properties of the messages of the process (SpecMessages).               *)
(***************************************************************************)
\* the loop of card c processes the next line of the pipe in this step
LineRead(c) ==
    /\ wpc[c] = "loop"
    /\ pipe[c] # <<>>
    /\ ~wk[c].cancelled
    /\ pipe'[c] = Tail(pipe[c])
\* the signals card c emits in this step
NewSignals(c) == SubSeq(log'[c], Len(log[c]) + 1, Len(log'[c]))
\* the lines with a recognised fatal phrase, and the message of each
FatalLines == {LUnavailable, LPrivate, LUnsupported, LNoFormats}
Translated(l) ==
    CASE l = LUnavailable -> "video_unavailable"
      [] l = LPrivate -> "private"
      [] l = LUnsupported -> "unsupported"
      [] l = LNoFormats -> "no_formats"
\* the message of an error line that is reported as it was printed
RawLine == "line"

\* C18: when the loop processes a line with a recognised fatal phrase the
\* run ends at that line with one error signal, the only terminal signal
\* of the worker, that carries the translated message of the phrase and
\* not the line, and nothing is read from the pipe afterwards; the error
\* of an "ERROR:" line without such a phrase is emitted only once the
\* process has exited
C18_FatalPhraseAborts ==
    [][\A c \in Cards :
          /\ (LineRead(c) /\ Head(pipe[c]) \in FatalLines) =>
                /\ wpc'[c] = "done"
                /\ NewSignals(c) = <<ErrorEv(Translated(Head(pipe[c])))>>
                /\ Translated(Head(pipe[c])) # RawLine
                /\ \A i \in 1..Len(log[c]) : ~Terminal(log[c][i])
          /\ wpc[c] = "done" =>
                /\ wpc'[c] = "done"
                /\ Len(pipe'[c]) >= Len(pipe[c])
                /\ log'[c] = log[c]
          /\ (\E i \in 1..Len(NewSignals(c)) :
                    NewSignals(c)[i] = ErrorEv(RawLine)) =>
                proc[c].st = "exited"]_vars
\* a run ended by a line about a private video, with the process running
C18_AbortedOnPrivate ==
    /\ wpc[1] = "done"
    /\ Last(log[1]) = ErrorEv("private")
    /\ hist[1].sawDest
\* a run ended after the exit of the process by the error of an error line
C18_RawErrorAfterExit ==
    /\ wpc[1] = "done"
    /\ Last(log[1]) = ErrorEv(RawLine)
    /\ proc[1].st = "exited"

\* the lines of the "format not available" kind
FormatLines == {LRequestedFormat, LFormatNA}
\* C19: a line of the "format not available" kind is a warning: the loop
\* goes on after it, emits no error signal for it and does not record an
\* error that would end the run in an error signal
C19_FormatLineIsWarning ==
    [][\A c \in Cards :
          (LineRead(c) /\ Head(pipe[c]) \in FormatLines) =>
              /\ wpc'[c] = "loop"
              /\ \A i \in 1..Len(NewSignals(c)) : ~Terminal(NewSignals(c)[i])
              /\ wk'[c].error_detected = wk[c].error_detected]_vars

\* C20: when run() has ended, with finished, with an error signal or
\* silently after a cancellation, the process it started is not running
C20_EndedRunHasNoProcess ==
    \A c \in Cards : wpc[c] = "done" => ~Alive(c)

(***************************************************************************)
(* Properties of the reports of a quality adjustment (SpecQuality).        *)
(***************************************************************************)
\* the reports of card c that come from the given checks
NotesOf(c, kinds) == {i \in 1..Len(notes[c]) : notes[c][i][1] \in kinds}

\* C21: for one card the check before the download (synchronous or in the
\* background) and the check of the finished file never both report a
\* quality adjustment, and at most one adjustment is reported
C21_OneAdjustmentPerCard ==
    \A c \in Cards :
        /\ Len(notes[c]) <= 1
        /\ ~(/\ NotesOf(c, {"pre", "background"}) # {}
              /\ NotesOf(c, {"post"}) # {})

(***************************************************************************)
(* Properties of the progress values (SpecPercent, SpecRun).               *)
(***************************************************************************)
Clamp(v) == IF v < 5 THEN 5 ELSE IF v > 75 THEN 75 ELSE v
\* the loop of card c processes a percent line with a well-formed token
PercentRead(c) == LineRead(c) /\ Head(pipe[c]).dl /\ Head(pipe[c]).pct >= 0
\* the token of that line, in tenths of a percent
Token(c) == Head(pipe[c]).pct

\* C22 as stated: the value emitted for a percent token p is
\* floor(p * 0.75) clamped to 5..75
C22_ScaledThenFloored ==
    [][\A c \in Cards :
          PercentRead(c) =>
              NewSignals(c)[1] = Prog(Clamp((Token(c) * 3) \div 40))]_vars
\* C22: the value emitted for a percent token p is floor(floor(p) * 0.75)
\* clamped to 5..75: the decimals of p are dropped before the scaling; it is
\* an integer of 5..75
C22_FlooredThenScaled ==
    [][\A c \in Cards :
          PercentRead(c) =>
              /\ NewSignals(c)[1]
                    = Prog(Clamp(((Token(c) \div 10) * 3) \div 4))
              /\ NewSignals(c)[1][2] \in 5..75]_vars
\* the token 13.9 has been processed and 9 emitted for it
C22_TokenWithDecimals ==
    /\ wk[1].last_pct_val = 139
    /\ \E i \in 1..Len(log[1]) : log[1][i] = Prog(9)

\* the value of the last progress signal among the first n - 1 of s
LastProgressBefore(s, n) ==
    LET I == {i \in 1..(n - 1) : IsProg(s[i])}
    IN s[CHOOSE i \in I : \A j \in I : j <= i][2]
\* the loop of card c processes a line with a conversion indicator after
\* the download stage: the crawl event is the last signal of the line
CrawlRead(c) ==
    /\ LineRead(c)
    /\ Head(pipe[c]).ind
    /\ RaiseChain(Head(pipe[c])) = "none"
    /\ ~Head(pipe[c]).already /\ ~Head(pipe[c]).post
    /\ wk'[c].download_completed

\* C23: a crawl event emits the minimum of 94 and one more than the
\* progress value emitted last before it
C23_CrawlAdvancesByOne ==
    [][\A c \in Cards :
          CrawlRead(c) =>
              LET n == Len(log'[c])
              IN log'[c][n]
                    = Prog(Min(94, LastProgressBefore(log'[c], n) + 1))]_vars

\* C24: a worker emits the progress value 100 exactly when its run ends in
\* finished, once and immediately before the finished signal; the values
\* emitted for a line of the process never exceed 95
C24_HundredOnlyWithFinished ==
    [][\A c \in Cards :
          /\ \A i \in 1..Len(log'[c]) :
                /\ log'[c][i] = Prog(100) =>
                      (i < Len(log'[c]) /\ log'[c][i + 1][1] = "finished")
                /\ log'[c][i][1] = "finished" =>
                      (i > 1 /\ log'[c][i - 1] = Prog(100))
          /\ Cardinality({i \in 1..Len(log'[c]) : log'[c][i] = Prog(100)}) <= 1
          /\ LineRead(c) =>
                \A i \in 1..Len(NewSignals(c)) :
                    IsProg(NewSignals(c)[i]) => NewSignals(c)[i][2] <= 95]_vars
\* a run that emitted 95 for a line of the process and ended in finished
C24_FinishedAfterNinetyFive ==
    /\ wpc[1] = "done"
    /\ Last(log[1])[1] = "finished"
    /\ \E i \in 1..Len(log[1]) : log[1][i] = Prog(95)

(***************************************************************************)
(* Properties of malformed progress lines (SpecProgress).                  *)
(***************************************************************************)
\* progress lines with a malformed percent token and a malformed size token
MalformedLines == {LBadPct, LBadSize}
WellFormedLines == ProgressLines \ MalformedLines
\* the loop of card c processes a malformed progress line
MalformedRead(c) == LineRead(c) /\ Head(pipe[c]) \in MalformedLines
\* what the loop would emit for line l in the state w of the worker
Outcome(w, l, tick) ==
    LET r == ProcessLine(w, l, tick, MediaName("u1"))
    IN <<r.emits, r.raised>>
\* what the percent block reads and writes
ParseState(w) ==
    <<w.last_pct_val, w.last_progress_value, w.real_progress_detected,
      w.total_size_text, w.total_size_bytes, w.download_size_bytes>>

C26_NotFoundOnlyAtLaunch ==
    \A c \in Cards :
        (\E i \in 1..Len(log[c]) : log[c][i] = ErrorEv("tool_not_found"))
            => ~Launched(c)

(***************************************************************************)
(* Properties of the resolved duplicate (SpecNames).                       *)
(***************************************************************************)
\* the file the process of card c is told to write: the output template
\* holds the folder and the title yt-dlp finds for the URL
OutputName(c) == MediaName(req[c].url)
\* the file named by the title the card shows
TitleName(c) ==
    IF card[c].title = BaseTitle
    THEN MediaName(card[c].worker_url)
    ELSE CopyName(card[c].worker_url, card[c].title.n)

\* C27: after a rename the process is told to write the file of the
\* generated name shown on the card and the file that was there is still
\* there; after an overwrite that file is gone when the worker starts
C27_RenamedOutput ==
    \A c \in Cards :
        /\ (Renamed(c) /\ Launched(c)) =>
              /\ OutputName(c) = TitleName(c)
              /\ Exists(fs, MediaName(card[c].worker_url))
        /\ (hist[c].dup = "overwrite" /\ wpc[c] = "created") =>
              ~Exists(fs, MediaName(card[c].worker_url))

(***************************************************************************)
(* Properties of the threads beside the UI thread (SpecThreads).           *)
(***************************************************************************)
\* C28: the labels and data of a card and the registry are written by the
\* UI thread only: the background format check hands its result over by
\* its signal and never writes the card itself
C28_CardWrittenByUiOnly ==
    \A c \in Cards : ~hist[c].offThread

(***************************************************************************)
(* Properties of the cancellation under fair scheduling (SpecCancelFair).  *)
(***************************************************************************)
\* C29: once cancel() has run on a worker whose process was launched, the
\* process eventually stops and run() eventually returns, also when the
\* cancel came before run() stored the process and the process prints
\* nothing more
C29_CancelStopsProcessAndRun ==
    \A c \in Cards :
        (wk[c].cancelled /\ Launched(c)) ~> (wpc[c] = "done" /\ ~Alive(c))

(***************************************************************************)
(* Properties of the selector of the audio presets (SpecPresets).          *)
(***************************************************************************)
\* C30: the selector a process is launched with for an audio preset depends
\* on the family only: it is the selector of the "_best" id of the family
\* and its first alternative is bestaudio, never the default of an unknown
\* preset
C30_AudioSelectorByFamily ==
    \A c \in Cards :
        (Launched(c) /\ IsAudio(hist[c].requested)) =>
            /\ proc[c].fmt = FormatSelector(Mode(hist[c].requested.kind, 0))
            /\ proc[c].fmt[1].sel = "bestaudio"
            /\ proc[c].fmt # FormatSelector(PUnknown.mode)
====
